---- MODULE Spec2Model ----
(***************************************************************************)
(* A model of gpt2_transformer.py: the graph-rewriting passes applied to   *)
(* an exported GPT-2 ONNX graph (add_name, process_concat, fix_transpose,  *)
(* process_dropout), called in that order by transform_gpt2, which then    *)
(* sets the version of the model's first opset import.                     *)
(*                                                                         *)
(* A graph is a record [node, initializer, input]: the three repeated      *)
(* fields of onnx.GraphProto the passes read and write.  A node is a       *)
(* record [op_type, name, input, output, attribute]; an attribute is a     *)
(* record [name, type, f, ints, t]; a tensor is [name, data_type, dims,    *)
(* data] with data the row-major (C order) flattening of the array.        *)
(* Python sequences are 0-based and TLA+ sequences 1-based: an index kept  *)
(* by the code (a position in graph.node) is kept 0-based here, and is     *)
(* shifted by one where the sequence is accessed.  A float32 is            *)
(* represented by the integer number of hundredths it holds.               *)
(* A Python exception is the err field of a pass's result: the graph in    *)
(* that result is the graph as the exception left it.                      *)
(***************************************************************************)
EXTENDS Integers, Sequences, FiniteSets, TLC

VARIABLES model, opset_import, pre, last, err, stage

vars == <<model, opset_import, pre, last, err, stage>>

(***************************************************************************)
(* Bounds of the checked inputs.                                           *)
(***************************************************************************)
\* the longest chain of pattern blocks an input graph is built from
MaxBlocks == 3
\* the largest number of Unsqueeze-fed inputs of a Concat
MaxDims == 2

(***************************************************************************)
(* Protobuf values.                                                        *)
(***************************************************************************)
\* AttributeProto.type of an attribute carrying a float, and of one carrying a tensor
AttrFLOAT == 1
AttrTENSOR == 4

\* the tensor field of an attribute that carries none
NoTensor == [name |-> "", data_type |-> "undefined", dims |-> <<>>, data |-> <<>>]

MkTensor(name, data_type, dims, data) ==
    [name |-> name, data_type |-> data_type, dims |-> dims, data |-> data]

MkAttr(name, type, f, ints, t) ==
    [name |-> name, type |-> type, f |-> f, ints |-> ints, t |-> t]

MkNode(op_type, name, input, output, attribute) ==
    [op_type |-> op_type, name |-> name, input |-> input, output |-> output,
     attribute |-> attribute]

\* Python's None where a node is expected
None == MkNode("None", "", <<>>, <<>>, <<>>)

\* Python's None where an index is expected
NoIndex == -1

(***************************************************************************)
(* Sequence helpers.                                                       *)
(***************************************************************************)
\* del s[i] for a 0-based index i in range
DelAt(s, i) == SubSeq(s, 1, i) \o SubSeq(s, i + 2, Len(s))

RECURSIVE InsertDesc(_, _)
InsertDesc(x, s) ==
    IF s = <<>> THEN <<x>>
    ELSE IF x >= Head(s) THEN <<x>> \o s
    ELSE <<Head(s)>> \o InsertDesc(x, Tail(s))

\* a sort left out: the list in the order it was filled
SortOmitted(s) == s

RECURSIVE SortReverse(_)
\* list.sort(reverse=True) on a list of integers: duplicates are kept
SortReverse(s) == IF s = <<>> THEN <<>> ELSE InsertDesc(Head(s), SortReverse(Tail(s)))

RECURSIVE Flatten(_)
Flatten(ss) == IF ss = <<>> THEN <<>> ELSE Head(ss) \o Flatten(Tail(ss))

Range(s) == {s[i] : i \in 1..Len(s)}

\* the number of positions of s holding x
Count(s, x) == Cardinality({i \in 1..Len(s) : s[i] = x})

\* n copies of x
Repeat(x, n) == [i \in 1..n |-> x]

(***************************************************************************)
(* Graph query helpers.                                                    *)
(***************************************************************************)
RECURSIVE ProducersFrom(_, _, _)
\* find_input_node's result list: a node once per output of it equal to arg
ProducersFrom(nodes, i, arg) ==
    IF i > Len(nodes) THEN <<>>
    ELSE Repeat(nodes[i], Count(nodes[i].output, arg)) \o ProducersFrom(nodes, i + 1, arg)

RECURSIVE ConsumersFrom(_, _, _)
\* find_output_node's result list: a node once per input of it equal to arg
ConsumersFrom(nodes, i, arg) ==
    IF i > Len(nodes) THEN <<>>
    ELSE Repeat(nodes[i], Count(nodes[i].input, arg)) \o ConsumersFrom(nodes, i + 1, arg)

find_input_node(m, arg) ==
    LET result == ProducersFrom(m.node, 1, arg)
    IN  IF Len(result) = 1 THEN result[1] ELSE None

find_output_node(m, arg) ==
    LET result == ConsumersFrom(m.node, 1, arg)
    IN  IF Len(result) = 1 THEN result[1] ELSE None

\* the initializer named arg (the first one), or NoTensor for None
find_initializer(m, arg) ==
    LET hits == {i \in 1..Len(m.initializer) : m.initializer[i].name = arg}
    IN  IF hits = {} THEN NoTensor
        ELSE m.initializer[CHOOSE i \in hits : \A j \in hits : i <= j]

\* 0-based position of the first node equal to node (protobuf messages compare
\* by value), or NoIndex
get_node_index(m, node) ==
    LET hits == {i \in 1..Len(m.node) : m.node[i] = node}
    IN  IF hits = {} THEN NoIndex
        ELSE (CHOOSE i \in hits : \A j \in hits : i <= j) - 1

find_weight_index(m, name) ==
    LET hits == {i \in 1..Len(m.initializer) : m.initializer[i].name = name}
    IN  IF hits = {} THEN NoIndex
        ELSE (CHOOSE i \in hits : \A j \in hits : i <= j) - 1

find_input_index(m, name) ==
    LET hits == {i \in 1..Len(m.input) : m.input[i].name = name}
    IN  IF hits = {} THEN NoIndex
        ELSE (CHOOSE i \in hits : \A j \in hits : i <= j) - 1

RECURSIVE FusedFrom(_, _, _)
\* the while loop of find_all_fused_nodes: candidate is the work queue
FusedFrom(m, candidate, result) ==
    IF candidate = <<>> THEN result
    ELSE LET node == Head(candidate)
             found == [i \in 1..Len(node.input) |-> find_input_node(m, node.input[i])]
             more == Flatten([i \in 1..Len(found) |->
                                 IF found[i] = None THEN <<>> ELSE <<found[i]>>])
         IN  IF node.op_type = "Shape"
             THEN FusedFrom(m, Tail(candidate), Append(result, node))
             ELSE FusedFrom(m, Tail(candidate) \o more, Append(result, node))

find_all_fused_nodes(m, concat_node) == FusedFrom(m, <<concat_node>>, <<>>)

\* the result of a call: the graph it leaves and the exception it raised
Ok(m) == [model |-> m, err |-> "none"]
Raise(m, e) == [model |-> m, err |-> e]

\* add_const: the Constant node is appended to the graph, its value attribute
\* carrying the tensor t_value or else the float f_value.  An optional
\* argument is <<>> for Python's None and <<v>> for the value v; with both
\* None, attr.f = None raises TypeError, the node already appended.
add_const(m, name, output, t_value, f_value) ==
    LET with(attr) ==
            [m EXCEPT !.node = Append(@, MkNode("Constant", name, <<>>, <<output>>, <<attr>>))]
    IN  IF t_value # <<>>
        THEN Ok(with(MkAttr("value", AttrTENSOR, 0, <<>>, t_value[1])))
        ELSE IF f_value # <<>>
        THEN Ok(with(MkAttr("value", AttrFLOAT, f_value[1], <<>>, NoTensor)))
        ELSE Raise(with(MkAttr("value", AttrFLOAT, 0, <<>>, NoTensor)), "TypeError")

\* add_name
add_name(m) ==
    [m EXCEPT !.node = [i \in 1..Len(m.node) |->
        [m.node[i] EXCEPT !.name = m.node[i].op_type \o "_" \o ToString(i - 1)]]]

(***************************************************************************)
(* process_concat.                                                         *)
(***************************************************************************)

\* numpy_helper.from_array(np.asarray(shape, dtype=np.int64))
ShapeTensor(shape) == MkTensor("", "int64", <<Len(shape)>>, shape)

RECURSIVE TargetShape(_, _, _, _)
\* the loop "figure out target shape" from its j-th input node on
TargetShape(m, input_nodes, j, shape) ==
    IF j > Len(input_nodes) THEN [err |-> "none", shape |-> shape]
    ELSE LET input_node == input_nodes[j] IN
         IF Len(input_node.input) = 0 THEN [err |-> "IndexError", shape |-> shape]
         ELSE LET const_input == find_input_node(m, input_node.input[1])
                  attr == const_input.attribute
              IN  IF const_input = None
                  THEN [err |-> "AttributeError", shape |-> shape]
                  ELSE IF const_input.op_type # "Constant"
                  THEN TargetShape(m, input_nodes, j + 1, Append(shape, 0))
                  ELSE IF Len(attr) # 1 \/ attr[1].name # "value" \/ attr[1].type # AttrTENSOR
                  THEN [err |-> "AssertionError", shape |-> shape]
                  ELSE IF Len(attr[1].t.data) # 1
                  THEN [err |-> "ValueError", shape |-> shape]
                  ELSE TargetShape(m, input_nodes, j + 1, Append(shape, attr[1].t.data[1]))

\* new_nodes[key] = shape on a dict kept as the sequence of its items in
\* insertion order
DictSet(d, key, shape) ==
    IF \E i \in 1..Len(d) : d[i].key = key
    THEN [i \in 1..Len(d) |-> IF d[i].key = key THEN [key |-> key, shape |-> shape] ELSE d[i]]
    ELSE Append(d, [key |-> key, shape |-> shape])

\* the indices process_concat appends to delete_nodes for one matched Concat
FusedIndices(m, node) ==
    LET fuse_nodes == find_all_fused_nodes(m, node)
    IN  [i \in 1..Len(fuse_nodes) |-> get_node_index(m, fuse_nodes[i])]

RECURSIVE ScanConcat(_, _, _, _)
\* the first loop of process_concat from the i-th node on
ScanConcat(m, i, new_nodes, delete_nodes) ==
    IF i > Len(m.node)
    THEN [err |-> "none", new_nodes |-> new_nodes, delete_nodes |-> delete_nodes]
    ELSE LET node == m.node[i]
             input_nodes == [j \in 1..Len(node.input) |-> find_input_node(m, node.input[j])]
             target == TargetShape(m, input_nodes, 1, <<>>)
             reshape_node == find_output_node(m, node.output[1])
             failed(e) == [err |-> e, new_nodes |-> new_nodes, delete_nodes |-> delete_nodes]
         IN  IF node.op_type # "Concat" THEN ScanConcat(m, i + 1, new_nodes, delete_nodes)
             ELSE IF \E j \in 1..Len(input_nodes) : input_nodes[j] = None
             THEN failed("AttributeError")
             ELSE IF \E j \in 1..Len(input_nodes) : input_nodes[j].op_type # "Unsqueeze"
             THEN ScanConcat(m, i + 1, new_nodes, delete_nodes)
             ELSE IF target.err # "none" THEN failed(target.err)
             ELSE IF Len(node.output) = 0 THEN failed("IndexError")
             ELSE IF reshape_node = None
             THEN ScanConcat(m, i + 1, new_nodes, delete_nodes)
             ELSE IF reshape_node.op_type # "Reshape" THEN failed("AssertionError")
             ELSE ScanConcat(m, i + 1,
                             DictSet(new_nodes, get_node_index(m, reshape_node), target.shape),
                             delete_nodes \o FusedIndices(m, node))

RECURSIVE InsertShapes(_, _, _)
\* the loop "insert new shape to reshape" from the index-th item of new_nodes on
InsertShapes(m, new_nodes, index) ==
    IF index >= Len(new_nodes) THEN Ok(m)
    ELSE LET item == new_nodes[index + 1]
             added == add_const(m, "concat_shape_node_" \o ToString(index),
                                "concat_shape_" \o ToString(index),
                                <<ShapeTensor(item.shape)>>, <<>>).model
             const_node == added.node[Len(added.node)]
             reshape_node == added.node[item.key + 1]
         IN  IF Len(reshape_node.input) < 2 THEN Raise(added, "IndexError")
             ELSE InsertShapes(
                    [added EXCEPT !.node[item.key + 1].input[2] = const_node.output[1]],
                    new_nodes, index + 1)

RECURSIVE DeleteNodes(_, _)
\* for delete_node in delete_nodes: del model.graph.node[delete_node]
DeleteNodes(m, delete_nodes) ==
    IF delete_nodes = <<>> THEN Ok(m)
    ELSE IF Head(delete_nodes) >= Len(m.node) THEN Raise(m, "IndexError")
    ELSE DeleteNodes([m EXCEPT !.node = DelAt(@, Head(delete_nodes))], Tail(delete_nodes))

process_concat(m) ==
    LET scan == ScanConcat(m, 1, <<>>, <<>>)
        inserted == InsertShapes(m, scan.new_nodes, 0)
    IN  IF scan.err # "none" THEN Raise(m, scan.err)
        ELSE IF inserted.err # "none" THEN inserted
        ELSE DeleteNodes(inserted.model, SortReverse(scan.delete_nodes))

(***************************************************************************)
(* fix_transpose.                                                          *)
(***************************************************************************)
\* replace_input_arg
replace_input_arg(m, arg, new_arg) ==
    [m EXCEPT !.node = [k \in 1..Len(m.node) |->
        [m.node[k] EXCEPT !.input = [i \in 1..Len(m.node[k].input) |->
            IF m.node[k].input[i] = arg THEN new_arg ELSE m.node[k].input[i]]]]]

RECURSIVE References(_, _, _)
\* len(result) of the inner loop of fix_transpose: the node inputs equal to name
References(nodes, i, name) ==
    IF i > Len(nodes) THEN 0
    ELSE Count(nodes[i].input, name) + References(nodes, i + 1, name)

\* a fold that swaps the dimensions and leaves the data in place
ReshapedTensor(w, perm, name) ==
    MkTensor(name, w.data_type, <<w.dims[perm[1] + 1], w.dims[perm[2] + 1]>>, w.data)

\* numpy's array.transpose(perm) on a 2-D tensor, and numpy_helper.from_array
\* of the result under the given name: entry (a, b) of the result is the entry
\* of the array whose coordinate on axis perm[0] is a and on axis perm[1] is b
TransposedTensor(w, perm, name) ==
    LET rows == w.dims[perm[1] + 1]
        cols == w.dims[perm[2] + 1]
        old(a, b) == LET o == [x \in {perm[1] + 1} |-> a] @@ [x \in {perm[2] + 1} |-> b]
                     IN  o[1] * w.dims[2] + o[2]
    IN  MkTensor(name, w.data_type, <<rows, cols>>,
                 [k \in 1..(rows * cols) |-> w.data[old((k - 1) \div cols, (k - 1) % cols) + 1]])

\* a guard that lets a weight with one more consumer through
SharedWeightLate(m, weight) == References(m.node, 1, weight.name) > 2

\* len(result) > 1: the weight feeds more node inputs than the Transpose's
SharedWeight(m, weight) == References(m.node, 1, weight.name) > 1

\* len(perm) == 2 and perm[0] == 1 and perm[1] == 0, perm the ints of the attribute
PermIsReversal(perm) ==
    Len(perm.ints) = 2 /\ perm.ints[1] = 1 /\ perm.ints[2] = 0

RECURSIVE ScanTranspose(_, _, _)
\* the first loop of fix_transpose from the i-th node on
ScanTranspose(m, i, transpose) ==
    IF i > Len(m.node) THEN [err |-> "none", transpose |-> transpose]
    ELSE LET node == m.node[i]
             weight == find_initializer(m, node.input[1])
             perm == node.attribute[1]
             failed(e) == [err |-> e, transpose |-> transpose]
         IN  IF node.op_type # "Transpose" THEN ScanTranspose(m, i + 1, transpose)
             ELSE IF Len(node.input) = 0 THEN failed("IndexError")
             ELSE IF weight = NoTensor THEN ScanTranspose(m, i + 1, transpose)
             ELSE IF SharedWeight(m, weight) THEN ScanTranspose(m, i + 1, transpose)
             ELSE IF Len(node.attribute) = 0 THEN failed("IndexError")
             ELSE IF perm.name # "perm" THEN failed("AssertionError")
             ELSE IF ~PermIsReversal(perm) THEN failed("AssertionError")
             ELSE ScanTranspose(m, i + 1,
                    Append(transpose, [index |-> get_node_index(m, node),
                                       weight |-> weight, perm |-> perm.ints]))

RECURSIVE FoldTransposes(_, _, _)
\* the second loop of fix_transpose; perm is the variable the first loop left
FoldTransposes(m, transpose, perm) ==
    IF transpose = <<>> THEN Ok(m)
    ELSE LET t == Head(transpose)
             node == m.node[t.index + 1]
             new_weight == TransposedTensor(t.weight, perm, t.weight.name \o "_transposed")
             extended == [m EXCEPT !.initializer = Append(@, new_weight)]
         IN  IF Len(t.weight.dims) # 2 THEN Raise(m, "AssertionError")
             ELSE FoldTransposes(replace_input_arg(extended, node.output[1], new_weight.name),
                                 Tail(transpose), perm)

RECURSIVE InsertByIndex(_, _)
InsertByIndex(t, s) ==
    IF s = <<>> THEN <<t>>
    ELSE IF t.index >= Head(s).index THEN <<t>> \o s
    ELSE <<Head(s)>> \o InsertByIndex(t, Tail(s))

RECURSIVE SortTranspose(_)
\* transpose.sort(reverse=True): the node indices of the tuples are distinct
SortTranspose(s) == IF s = <<>> THEN <<>> ELSE InsertByIndex(Head(s), SortTranspose(Tail(s)))

RECURSIVE DeleteInputs(_, _)
DeleteInputs(m, old_graph_inputs) ==
    IF old_graph_inputs = <<>> THEN Ok(m)
    ELSE IF Head(old_graph_inputs) = NoIndex THEN Raise(m, "TypeError")
    ELSE IF Head(old_graph_inputs) >= Len(m.input) THEN Raise(m, "IndexError")
    ELSE DeleteInputs([m EXCEPT !.input = DelAt(@, Head(old_graph_inputs))],
                      Tail(old_graph_inputs))

RECURSIVE DeleteWeights(_, _)
DeleteWeights(m, old_ws) ==
    IF old_ws = <<>> THEN Ok(m)
    ELSE IF Head(old_ws) >= Len(m.initializer) THEN Raise(m, "IndexError")
    ELSE DeleteWeights([m EXCEPT !.initializer = DelAt(@, Head(old_ws))], Tail(old_ws))

\* the clean up of fix_transpose, after the Transpose nodes are deleted
CleanUp(m, transpose) ==
    LET dead == Flatten([i \in 1..Len(transpose) |->
                  IF find_output_node(m, transpose[i].weight.name) = None
                  THEN <<transpose[i].weight.name>> ELSE <<>>])
        old_ws == [i \in 1..Len(dead) |-> find_weight_index(m, dead[i])]
        old_graph_inputs == [i \in 1..Len(dead) |-> find_input_index(m, dead[i])]
        inputs_deleted == DeleteInputs(m, SortReverse(old_graph_inputs))
    IN  \* sorting a list of two or more entries that holds a None raises
        IF Len(old_graph_inputs) > 1 /\ NoIndex \in Range(old_graph_inputs)
        THEN Raise(m, "TypeError")
        ELSE IF inputs_deleted.err # "none" THEN inputs_deleted
        ELSE DeleteWeights(inputs_deleted.model, SortReverse(old_ws))

fix_transpose(m) ==
    LET scan == ScanTranspose(m, 1, <<>>)
        perm == scan.transpose[Len(scan.transpose)].perm
        folded == FoldTransposes(m, scan.transpose, perm)
        sorted == SortTranspose(scan.transpose)
        deleted == DeleteNodes(folded.model, [i \in 1..Len(sorted) |-> sorted[i].index])
    IN  IF scan.err # "none" THEN Raise(m, scan.err)
        ELSE IF folded.err # "none" THEN folded
        ELSE IF deleted.err # "none" THEN deleted
        ELSE CleanUp(deleted.model, sorted)

(***************************************************************************)
(* process_dropout.                                                        *)
(***************************************************************************)
\* numpy_helper.from_array(np.asarray([f], dtype=np.float32))
RatioTensor(f) == MkTensor("", "float32", <<1>>, <<f>>)

RECURSIVE ScanDropout(_, _, _, _)
\* the loop of process_dropout from the i-th node on; the nodes it appends
\* are visited by it too
ScanDropout(m, i, index, dropouts) ==
    IF i > Len(m.node) THEN [model |-> m, err |-> "none", dropouts |-> dropouts]
    ELSE LET node == m.node[i]
             new_dropout == MkNode("TrainableDropout", "TrainableDropout_" \o ToString(index),
                                   <<>>, <<>>, <<>>)
             with_new == [m EXCEPT !.node = Append(@, new_dropout)]
             at == Len(with_new.node)
             ratio_name == "dropout_node_ratio_" \o ToString(index)
             with_ratio == add_const(with_new, ratio_name, ratio_name,
                                     <<RatioTensor(node.attribute[1].f)>>, <<>>).model
             ratio_node == with_ratio.node[Len(with_ratio.node)]
             wired == [with_ratio EXCEPT
                         !.node[at].input = <<node.input[1], ratio_node.output[1]>>,
                         !.node[at].output = node.output]
         IN  IF node.op_type # "Dropout" THEN ScanDropout(m, i + 1, index, dropouts)
             ELSE IF Len(node.attribute) = 0
             THEN [model |-> with_new, err |-> "IndexError", dropouts |-> dropouts]
             ELSE IF Len(node.input) = 0
             THEN [model |-> with_ratio, err |-> "IndexError", dropouts |-> dropouts]
             ELSE ScanDropout(wired, i + 1, index + 1,
                              Append(dropouts, get_node_index(wired, node)))

process_dropout(m) ==
    LET scan == ScanDropout(m, 1, 0, <<>>)
    IN  IF scan.err # "none" THEN Raise(scan.model, scan.err)
        ELSE DeleteNodes(scan.model, SortReverse(scan.dropouts))

(***************************************************************************)
(* The input graphs: exported graphs assembled from the patterns the       *)
(* passes look for.  A graph is a chain of blocks over one running         *)
(* activation (cur), which starts as the graph input X.  Node output names *)
(* are unique, nodes are in topological order and unnamed (add_name names  *)
(* them), and no node output shares its name with an initializer.          *)
(***************************************************************************)
DimKinds == {"const", "gather", "sgather", "direct"}
Extras == {"none", "init", "const"}
Consumers == {"reshape", "none", "two", "other"}
Perms == {<<1, 0>>, <<0, 1>>, <<1, 0, 2>>}
WeightDims == {<<2, 3>>, <<6>>}
Ratios == {10, 50}

Desc(kind, dims, extra, consumer, src, perm, wdims, declared, shared, ratio) ==
    [kind |-> kind, dims |-> dims, extra |-> extra, consumer |-> consumer, src |-> src,
     perm |-> perm, wdims |-> wdims, declared |-> declared, shared |-> shared,
     ratio |-> ratio]

ShapeDesc(dims, extra, consumer) ==
    Desc("shape", dims, extra, consumer, "", <<>>, <<>>, FALSE, FALSE, 0)
TransposeDesc(src, perm, wdims, declared, shared) ==
    Desc("transpose", <<>>, "", "", src, perm, wdims, declared, shared, 0)
DropoutDesc(ratio) ==
    Desc("dropout", <<>>, "", "", "", <<>>, <<>>, FALSE, FALSE, ratio)

DimSeqs == UNION {[1..n -> DimKinds] : n \in 1..MaxDims}

\* the blocks a one-block graph is drawn from
RichDescs ==
    {ShapeDesc(dims, "none", "reshape") : dims \in DimSeqs}
    \cup {ShapeDesc(<<k>>, e, c) : k \in {"const", "gather", "direct"},
                                    e \in Extras, c \in Consumers}
    \cup {TransposeDesc("init", p, w, dc, sh) :
             p \in Perms, w \in WeightDims, dc \in BOOLEAN, sh \in BOOLEAN}
    \cup {TransposeDesc("runtime", p, <<>>, FALSE, FALSE) : p \in Perms}
    \cup {DropoutDesc(r) : r \in Ratios}

\* the blocks a longer graph is drawn from
CoreDescs ==
    {ShapeDesc(<<"const", "gather">>, "none", "reshape"),
     ShapeDesc(<<"sgather", "sgather">>, "none", "reshape"),
     ShapeDesc(<<"borrow">>, "none", "reshape"),
     ShapeDesc(<<"borrow">>, "none", "none"),
     ShapeDesc(<<"const">>, "none", "two"),
     ShapeDesc(<<"direct">>, "none", "reshape"),
     TransposeDesc("init", <<1, 0>>, <<2, 3>>, TRUE, FALSE),
     TransposeDesc("init", <<1, 0>>, <<2, 3>>, FALSE, FALSE),
     TransposeDesc("init", <<1, 0>>, <<2, 3>>, TRUE, TRUE),
     TransposeDesc("init", <<0, 1>>, <<2, 3>>, TRUE, FALSE),
     DropoutDesc(10),
     DropoutDesc(50)}

DescSeqs ==
    {<<d>> : d \in RichDescs} \cup UNION {[1..n -> CoreDescs] : n \in 2..MaxBlocks}

\* the value the j-th literal dimension of a shape holds
DimValue(j) == IF j = 1 THEN 2 ELSE 384 * j

ScalarInt(v) == MkTensor("", "int64", <<>>, <<v>>)
ConstantNode(output, t) ==
    MkNode("Constant", "", <<>>, <<output>>, <<MkAttr("value", AttrTENSOR, 0, <<>>, t)>>)
UnsqueezeNode(input, output) ==
    MkNode("Unsqueeze", "", <<input>>, <<output>>, <<MkAttr("axes", 7, 0, <<0>>, NoTensor)>>)

RECURSIVE Product(_)
Product(dims) == IF dims = <<>> THEN 1 ELSE Head(dims) * Product(Tail(dims))

\* the nodes computing dimension j of block b, and the name of its Unsqueeze output
DimNodes(st, b, j, kind) ==
    LET B == ToString(b)
        T == B \o "_" \o ToString(j)
        u == "u" \o T
        index == ConstantNode("i" \o T, ScalarInt(j - 1))
    IN  CASE kind = "const" \/ (kind = "borrow" /\ st.u1 = "") ->
               [node |-> <<ConstantNode("c" \o T, ScalarInt(DimValue(j))),
                           UnsqueezeNode("c" \o T, u)>>, u |-> u]
          [] kind = "gather" ->
               [node |-> <<MkNode("Shape", "", <<st.cur>>, <<"s" \o T>>, <<>>), index,
                           MkNode("Gather", "", <<"s" \o T, "i" \o T>>, <<"g" \o T>>, <<>>),
                           UnsqueezeNode("g" \o T, u)>>, u |-> u]
          [] kind = "sgather" ->
               [node |-> <<index,
                           MkNode("Gather", "", <<"s" \o B, "i" \o T>>, <<"g" \o T>>, <<>>),
                           UnsqueezeNode("g" \o T, u)>>, u |-> u]
          [] kind = "direct" -> [node |-> <<UnsqueezeNode(st.cur, u)>>, u |-> u]
          [] kind = "borrow" /\ st.u1 # "" -> [node |-> <<>>, u |-> st.u1]

BuildShape(st, b, d) ==
    LET B == ToString(b)
        parts == [j \in 1..Len(d.dims) |-> DimNodes(st, b, j, d.dims[j])]
        shape == IF "sgather" \in Range(d.dims)
                 THEN <<MkNode("Shape", "", <<st.cur>>, <<"s" \o B>>, <<>>)>> ELSE <<>>
        extra == IF d.extra = "const"
                 THEN <<ConstantNode("e" \o B, MkTensor("", "int64", <<1>>, <<1>>))>>
                 ELSE <<>>
        more == CASE d.extra = "none" -> <<>>
                  [] d.extra = "init" -> <<"E" \o B>>
                  [] d.extra = "const" -> <<"e" \o B>>
        cat == "cat" \o B
        concat == MkNode("Concat", "", [j \in 1..Len(parts) |-> parts[j].u] \o more,
                         <<cat>>, <<>>)
        reshape == MkNode("Reshape", "", <<st.cur, cat>>, <<"r" \o B>>, <<>>)
        cast == MkNode("Cast", "", <<cat>>, <<"k" \o B>>, <<>>)
        users == CASE d.consumer = "reshape" -> <<reshape>>
                   [] d.consumer = "none" -> <<>>
                   [] d.consumer = "two" -> <<reshape, cast>>
                   [] d.consumer = "other" -> <<cast>>
    IN  [node |-> st.node \o shape \o Flatten([j \in 1..Len(parts) |-> parts[j].node])
                    \o extra \o <<concat>> \o users,
         initializer |-> st.initializer \o
            (IF d.extra = "init"
             THEN <<MkTensor("E" \o B, "int64", <<1>>, <<1>>)>> ELSE <<>>),
         input |-> st.input \o (IF d.extra = "init" THEN <<[name |-> "E" \o B]>> ELSE <<>>),
         cur |-> IF d.consumer \in {"reshape", "two"} THEN "r" \o B ELSE st.cur,
         u1 |-> parts[1].u]

BuildTranspose(st, b, d) ==
    LET B == ToString(b)
        W == "W" \o B
        n == Product(d.wdims)
        perm == <<MkAttr("perm", 7, 0, d.perm, NoTensor)>>
        fed == IF d.shared THEN "a" \o B ELSE st.cur
    IN  IF d.src = "runtime"
        THEN [st EXCEPT !.node = Append(@, MkNode("Transpose", "", <<st.cur>>,
                                                  <<"t" \o B>>, perm)),
                        !.cur = "t" \o B]
        ELSE [node |-> st.node
                    \o (IF d.shared
                        THEN <<MkNode("Add", "", <<st.cur, W>>, <<"a" \o B>>, <<>>)>>
                        ELSE <<>>)
                    \o <<MkNode("Transpose", "", <<W>>, <<"t" \o B>>, perm),
                         MkNode("MatMul", "", <<fed, "t" \o B>>, <<"m" \o B>>, <<>>)>>,
              initializer |-> Append(st.initializer,
                                     MkTensor(W, "float32", d.wdims, [k \in 1..n |-> k])),
              input |-> st.input \o (IF d.declared THEN <<[name |-> W]>> ELSE <<>>),
              cur |-> "m" \o B,
              u1 |-> st.u1]

BuildDropout(st, b, d) ==
    LET B == ToString(b)
    IN  [st EXCEPT !.node = Append(@, MkNode("Dropout", "", <<st.cur>>,
                                             <<"d" \o B, "mask" \o B>>,
                                             <<MkAttr("ratio", AttrFLOAT, d.ratio, <<>>, NoTensor)>>)),
                   !.cur = "d" \o B]

RECURSIVE BuildFrom(_, _, _)
BuildFrom(st, descs, b) ==
    IF b > Len(descs) THEN st
    ELSE LET d == descs[b]
         IN  BuildFrom(CASE d.kind = "shape" -> BuildShape(st, b, d)
                         [] d.kind = "transpose" -> BuildTranspose(st, b, d)
                         [] d.kind = "dropout" -> BuildDropout(st, b, d),
                       descs, b + 1)

BuildGraph(descs) ==
    LET st == BuildFrom([node |-> <<>>, initializer |-> <<>>, input |-> <<[name |-> "X"]>>,
                         cur |-> "X", u1 |-> ""], descs, 1)
    IN  [node |-> st.node, initializer |-> st.initializer, input |-> st.input]

Graphs == {BuildGraph(descs) : descs \in DescSeqs}

\* the opset imports of the model file: none, the default domain, two domains
OpsetImports ==
    {<<>>,
     <<[domain |-> "", version |-> 9]>>,
     <<[domain |-> "", version |-> 10], [domain |-> "com.microsoft", version |-> 1]>>}

(***************************************************************************)
(* The caller, transform_gpt2: the four passes, each once and in order,    *)
(* then the opset version.  stage counts the statements of transform_gpt2  *)
(* that were run, pre is the graph the last of them was given, err the     *)
(* exception it raised; after an exception the run is over.                *)
(***************************************************************************)
Init ==
    /\ model \in Graphs
    /\ opset_import \in OpsetImports
    /\ pre = model
    /\ last = "load"
    /\ err = "none"
    /\ stage = 0

Call(name, result) ==
    /\ err = "none"
    /\ pre' = model
    /\ last' = name
    /\ model' = result.model
    /\ err' = result.err
    /\ UNCHANGED opset_import

AddName ==
    /\ stage = 0
    /\ stage' = 1
    /\ Call("add_name", Ok(add_name(model)))

ProcessConcat ==
    /\ stage = 1
    /\ stage' = 2
    /\ Call("process_concat", process_concat(model))

FixTranspose ==
    /\ stage = 2
    /\ stage' = 3
    /\ Call("fix_transpose", fix_transpose(model))

ProcessDropout ==
    /\ stage = 3
    /\ stage' = 4
    /\ Call("process_dropout", process_dropout(model))

\* model.opset_import[0].version = 11: an IndexError when there is no import
SetOpset ==
    /\ stage = 4
    /\ stage' = 5
    /\ err = "none"
    /\ pre' = model
    /\ last' = "set_opset"
    /\ UNCHANGED model
    /\ IF opset_import = <<>>
       THEN err' = "IndexError" /\ UNCHANGED opset_import
       ELSE /\ err' = "none"
            /\ opset_import' = [opset_import EXCEPT ![1].version = 11]

Next == AddName \/ ProcessConcat \/ FixTranspose \/ ProcessDropout \/ SetOpset

Spec == Init /\ [][Next]_vars

(***************************************************************************)
(* Vocabulary of the properties, stated on the graph before a pass (pre)   *)
(* and the graph after it (model).  Node positions are 1-based here.       *)
(***************************************************************************)
Called(name) == last = name

OutputNames(m) == UNION {Range(m.node[k].output) : k \in 1..Len(m.node)}
InitNames(m) == {m.initializer[i].name : i \in 1..Len(m.initializer)}
InputNames(m) == {m.input[i].name : i \in 1..Len(m.input)}

\* the positions of the nodes with an output called name
ProducersOf(m, name) == {k \in 1..Len(m.node) : name \in Range(m.node[k].output)}

\* the number of node inputs called name
RefCount(m, name) ==
    Cardinality(UNION {{<<k, i>> : i \in {j \in 1..Len(m.node[k].input) :
                                               m.node[k].input[j] = name}} :
                       k \in 1..Len(m.node)})

\* the kind of the one node producing name, "" when there is not exactly one
ProducerKind(m, name) ==
    IF Cardinality(ProducersOf(m, name)) = 1
    THEN m.node[CHOOSE k \in ProducersOf(m, name) : TRUE].op_type ELSE ""

\* the nodes of m with an input called name
ConsumersOf(m, name) == {k \in 1..Len(m.node) : name \in Range(m.node[k].input)}

UniqueOutputs(m) ==
    \A k, l \in 1..Len(m.node) : \A i \in 1..Len(m.node[k].output) :
        \A j \in 1..Len(m.node[l].output) :
            m.node[k].output[i] = m.node[l].output[j] => k = l /\ i = j

\* every node input names a node output, an initializer or a graph input
Resolved(m) ==
    \A k \in 1..Len(m.node) :
        Range(m.node[k].input) \subseteq OutputNames(m) \cup InitNames(m) \cup InputNames(m)

RECURSIVE Without(_, _, _)
\* the nodes of a sequence at the positions >= i not in gone, in order
Without(nodes, i, gone) ==
    IF i > Len(nodes) THEN <<>>
    ELSE (IF i \in gone THEN <<>> ELSE <<nodes[i]>>) \o Without(nodes, i + 1, gone)

\* a Concat all of whose inputs are produced by Unsqueeze nodes
UnsqueezeFed(m, k) ==
    /\ m.node[k].op_type = "Concat"
    /\ \A i \in 1..Len(m.node[k].input) : ProducerKind(m, m.node[k].input[i]) = "Unsqueeze"

\* a Concat the pass folds: Unsqueeze-fed, its output read by one Reshape only
Foldable(m, k) ==
    /\ UnsqueezeFed(m, k)
    /\ RefCount(m, m.node[k].output[1]) = 1
    /\ \A c \in ConsumersOf(m, m.node[k].output[1]) : m.node[c].op_type = "Reshape"

RECURSIVE Upstream(_, _)
\* S and the nodes find_all_fused_nodes reaches from S: the producers of the
\* inputs of every node but a Shape
Upstream(m, S) ==
    LET step == S \cup {p \in 1..Len(m.node) :
                    \E k \in S : /\ m.node[k].op_type # "Shape"
                                 /\ \E a \in Range(m.node[k].input) : ProducersOf(m, a) = {p}}
    IN  IF step = S THEN S ELSE Upstream(m, step)

\* the literal shape of a folded Concat: per input, the scalar of the Constant
\* feeding its Unsqueeze, or 0
LiteralShape(m, k) ==
    [i \in 1..Len(m.node[k].input) |->
        LET u == m.node[CHOOSE p \in ProducersOf(m, m.node[k].input[i]) : TRUE]
            src == ProducersOf(m, u.input[1])
        IN  IF Cardinality(src) = 1 /\ m.node[CHOOSE p \in src : TRUE].op_type = "Constant"
            THEN m.node[CHOOSE p \in src : TRUE].attribute[1].t.data[1]
            ELSE 0]

\* a node of m with the outputs of node n
Survives(m, n) == \E i \in 1..Len(m.node) : m.node[i].output = n.output

\* the Transpose nodes fed by an initializer
WeightTransposes(m) ==
    {k \in 1..Len(m.node) : /\ m.node[k].op_type = "Transpose"
                            /\ m.node[k].input[1] \in InitNames(m)}
PermOf(m, k) == m.node[k].attribute[1].ints
WeightOf(m, k) ==
    m.initializer[CHOOSE i \in 1..Len(m.initializer) :
                     m.initializer[i].name = m.node[k].input[1]]
Unshared(m, k) == RefCount(m, m.node[k].input[1]) = 1
\* the Transpose nodes the pass folds
Folded(m) == {k \in WeightTransposes(m) : Unshared(m, k) /\ PermOf(m, k) = <<1, 0>>}
FoldedWeights(m) == {m.node[k].input[1] : k \in Folded(m)}

\* the positions of the Dropout nodes, and the rank of one among them
Dropouts(m) == {k \in 1..Len(m.node) : m.node[k].op_type = "Dropout"}
Rank(m, k) == Cardinality({l \in Dropouts(m) : l < k})

(***************************************************************************)
(* process_concat.                                                         *)
(***************************************************************************)
\* C1: when process_concat completes, the nodes gone from the node sequence
\* are exactly the nodes collected for the folded Concats, each gone once
\* however often it was collected; every other node is still there, in its
\* original order, followed only by the new Constant nodes.
C1_RemovesExactlyTheCollected ==
    (Called("process_concat") /\ err = "none") =>
        LET gone == Upstream(pre, {k \in 1..Len(pre.node) : Foldable(pre, k)})
            kept == Without(pre.node, 1, gone)
        IN  /\ Len(model.node) >= Len(kept)
            /\ \A i \in 1..Len(kept) :
                   /\ model.node[i].op_type = kept[i].op_type
                   /\ model.node[i].output = kept[i].output
            /\ \A i \in (Len(kept) + 1)..Len(model.node) :
                   /\ model.node[i].op_type = "Constant"
                   /\ model.node[i].output \notin {pre.node[k].output : k \in 1..Len(pre.node)}

\* C2: a deleting pass given a graph with unique node outputs and resolved
\* inputs leaves, when it completes, every input of every surviving node
\* naming a surviving node output, initializer or graph input.
C2_InputsStayResolved ==
    (/\ last \in {"process_concat", "fix_transpose", "process_dropout"}
     /\ err = "none"
     /\ UniqueOutputs(pre) /\ Resolved(pre)) => Resolved(model)

\* C4: an Unsqueeze-fed Concat whose output has no consumer, several
\* consumers or one consumer that is not a Reshape is skipped: the pass
\* completes, the Concat and its upstream nodes remain in the graph, and no
\* constant is added for it (the constants concat_shape_node_<n> are as many
\* as the Concats with one Reshape consumer).
C4_NoUniqueReshapeIsASkip ==
    Called("process_concat") =>
        \A k \in 1..Len(pre.node) :
            (UnsqueezeFed(pre, k) /\ ~Foldable(pre, k)) =>
                /\ err = "none"
                /\ \A u \in Upstream(pre, {k}) : Survives(model, pre.node[u])
                /\ \A n \in 0..Len(pre.node) :
                       (\E i \in 1..Len(model.node) :
                            model.node[i].name = "concat_shape_node_" \o ToString(n)) =>
                           n < Cardinality({l \in 1..Len(pre.node) : Foldable(pre, l)})

\* C5: a Concat with an input that is not produced by an Unsqueeze node
\* (another kind of producer, or no unique producer at all) is skipped: the
\* pass completes and the Concat is still in the graph, unchanged.
C5_NonUnsqueezeInputIsASkip ==
    Called("process_concat") =>
        \A k \in 1..Len(pre.node) :
            (pre.node[k].op_type = "Concat" /\ ~UnsqueezeFed(pre, k)) =>
                /\ err = "none"
                /\ \E i \in 1..Len(model.node) : model.node[i] = pre.node[k]

\* C7: when process_concat completes, the Reshape reading the k-th folded
\* Concat has as second input the output concat_shape_<k> of a Constant node
\* concat_shape_node_<k> holding the Concat's literal shape as int64, and the
\* Concat and its collected ancestors are gone.
C7_ReshapeGetsLiteralShape ==
    (Called("process_concat") /\ err = "none") =>
        \A k \in 1..Len(pre.node) : Foldable(pre, k) =>
            LET n == ToString(Cardinality({l \in 1..(k - 1) : Foldable(pre, l)}))
                reshape == pre.node[CHOOSE c \in ConsumersOf(pre, pre.node[k].output[1]) : TRUE]
            IN  /\ \E i \in 1..Len(model.node) :
                       /\ model.node[i].op_type = "Reshape"
                       /\ model.node[i].output = reshape.output
                       /\ model.node[i].input[2] = "concat_shape_" \o n
                /\ \E i \in 1..Len(model.node) :
                       /\ model.node[i].op_type = "Constant"
                       /\ model.node[i].name = "concat_shape_node_" \o n
                       /\ model.node[i].output = <<"concat_shape_" \o n>>
                       /\ model.node[i].attribute[1].t.data_type = "int64"
                       /\ model.node[i].attribute[1].t.data = LiteralShape(pre, k)
                /\ \A u \in Upstream(pre, {k}) : ~Survives(model, pre.node[u])

(***************************************************************************)
(* fix_transpose.                                                          *)
(***************************************************************************)
\* C3: a Transpose of an initializer whose perm is not [1, 0] stops
\* the pass with an assertion failure, however many nodes read the initializer.
C3_BadPermAlwaysAsserts ==
    Called("fix_transpose") =>
        ((\E k \in WeightTransposes(pre) : PermOf(pre, k) # <<1, 0>>) =>
            err = "AssertionError")

\* C6: when fix_transpose has a weight to fold and nothing to assert on, it
\* completes, whether or not the weight has a graph-input entry; each folded
\* weight left unreferenced is gone from the initializers and from the graph
\* inputs, and no other initializer or graph input is removed.
C6_DeadWeightIsRemoved ==
    (/\ Called("fix_transpose")
     /\ Folded(pre) # {}
     /\ \A k \in WeightTransposes(pre) : Unshared(pre, k) =>
            (PermOf(pre, k) = <<1, 0>> /\ Len(WeightOf(pre, k).dims) = 2)) =>
        /\ err = "none"
        /\ InitNames(model) \cap FoldedWeights(pre) = {}
        /\ InputNames(model) \cap FoldedWeights(pre) = {}
        /\ InitNames(pre) \ FoldedWeights(pre) \subseteq InitNames(model)
        /\ InputNames(pre) \ FoldedWeights(pre) = InputNames(model)

\* the input every occurrence of a folded Transpose's output is rewritten to
Rewired(m, name) ==
    IF \E k \in Folded(m) : m.node[k].output[1] = name
    THEN m.node[CHOOSE k \in Folded(m) : m.node[k].output[1] = name].input[1] \o "_transposed"
    ELSE name

\* C8: once fix_transpose has folded (it completed, or it stopped in the clean
\* up after it), every Transpose with perm [1, 0] of a 2-D initializer W that
\* nothing else reads is gone, the initializers hold <W>_transposed with the
\* shape and the values of W's matrix transpose, every node input that named
\* the Transpose's output names <W>_transposed, and the other nodes keep their
\* inputs and their order.
C8_TransposeFoldedIntoWeight ==
    (Called("fix_transpose") /\ err \in {"none", "TypeError"}) =>
        /\ \A k \in Folded(pre) :
              LET W == WeightOf(pre, k) IN
              /\ ~Survives(model, pre.node[k])
              /\ \E i \in 1..Len(model.initializer) :
                    LET T == model.initializer[i] IN
                    /\ T.name = W.name \o "_transposed"
                    /\ T.data_type = W.data_type
                    /\ T.dims = <<W.dims[2], W.dims[1]>>
                    /\ Len(T.data) = Len(W.data)
                    /\ \A a \in 0..(W.dims[2] - 1) : \A b \in 0..(W.dims[1] - 1) :
                          T.data[a * W.dims[1] + b + 1] = W.data[b * W.dims[2] + a + 1]
        /\ LET kept == Without(pre.node, 1, Folded(pre))
           IN  model.node = [i \in 1..Len(kept) |->
                   [kept[i] EXCEPT !.input =
                       [j \in 1..Len(kept[i].input) |-> Rewired(pre, kept[i].input[j])]]]

\* the pass completed after folding a Transpose whose output a node read
C8_Witness ==
    /\ Called("fix_transpose") /\ err = "none"
    /\ \E k \in Folded(pre) : ConsumersOf(pre, pre.node[k].output[1]) # {}
    /\ \E i \in 1..Len(model.initializer) : model.initializer[i].dims = <<3, 2>>

\* C10: a Transpose of an initializer W that a second node input reads is left
\* in the graph as it was, no <W>_transposed initializer is made, no reference
\* to the Transpose's output is rewritten, and W keeps its initializer and its
\* graph-input entry.
C10_SharedWeightIsLeftAlone ==
    Called("fix_transpose") =>
        \A k \in WeightTransposes(pre) : ~Unshared(pre, k) =>
            LET W == WeightOf(pre, k)
                out == pre.node[k].output[1]
            IN  /\ \E i \in 1..Len(model.node) : model.node[i] = pre.node[k]
                /\ (W.name \o "_transposed") \notin InitNames(model)
                /\ RefCount(model, out) = RefCount(pre, out)
                /\ \A c \in ConsumersOf(pre, out) :
                       \E i \in 1..Len(model.node) :
                           /\ model.node[i].output = pre.node[c].output
                           /\ \A j \in 1..Len(pre.node[c].input) :
                                  pre.node[c].input[j] = out => model.node[i].input[j] = out
                /\ \E i \in 1..Len(model.initializer) : model.initializer[i] = W
                /\ W.name \in InputNames(pre) => W.name \in InputNames(model)

\* the pass completed, folding one Transpose and leaving alone another whose
\* weight a second node reads
C10_Witness ==
    /\ Called("fix_transpose") /\ err = "none"
    /\ Folded(pre) # {}
    /\ \E k \in WeightTransposes(pre) : ~Unshared(pre, k) /\ PermOf(pre, k) = <<1, 0>>

(***************************************************************************)
(* process_dropout.                                                        *)
(***************************************************************************)
\* C9: when process_dropout completes no Dropout node is left; for the k-th
\* Dropout there is exactly one node TrainableDropout_<k>, a TrainableDropout
\* with the Dropout's outputs and the inputs [the Dropout's first input,
\* dropout_node_ratio_<k>], and exactly one Constant node dropout_node_ratio_<k>
\* with that output holding the Dropout's ratio as one float32; the other
\* nodes are unchanged and in their original order.
C9_DropoutBecomesTrainable ==
    (Called("process_dropout") /\ err = "none") =>
        /\ Dropouts(model) = {}
        /\ \A d \in Dropouts(pre) :
              LET n == ToString(Rank(pre, d))
                  new == {i \in 1..Len(model.node) :
                             model.node[i].name = "TrainableDropout_" \o n}
                  ratio == {i \in 1..Len(model.node) :
                               model.node[i].name = "dropout_node_ratio_" \o n}
              IN  /\ Cardinality(new) = 1
                  /\ \A i \in new :
                        /\ model.node[i].op_type = "TrainableDropout"
                        /\ model.node[i].output = pre.node[d].output
                        /\ model.node[i].input =
                              <<pre.node[d].input[1], "dropout_node_ratio_" \o n>>
                  /\ Cardinality(ratio) = 1
                  /\ \A i \in ratio :
                        /\ model.node[i].op_type = "Constant"
                        /\ model.node[i].output = <<"dropout_node_ratio_" \o n>>
                        /\ model.node[i].attribute[1].t =
                              MkTensor("", "float32", <<1>>, <<pre.node[d].attribute[1].f>>)
        /\ LET kept == Without(pre.node, 1, Dropouts(pre))
           IN  /\ Len(model.node) = Len(kept) + 2 * Cardinality(Dropouts(pre))
               /\ SubSeq(model.node, 1, Len(kept)) = kept

\* the pass completed on a graph with two Dropout nodes of different ratios
\* and a node after the first of them
C9_Witness ==
    /\ Called("process_dropout") /\ err = "none"
    /\ \E d, e \in Dropouts(pre) :
          d < e /\ pre.node[d].attribute[1].f # pre.node[e].attribute[1].f

====
